---- MODULE Spec2Model ----
(***************************************************************************)
(* Model of the job search aggregator (services/search_service.py), its    *)
(* thread pool, and the two site adapters (job_sites/hh.py,                *)
(* job_sites/geekjob.py) as far as search_all_sites observes them.         *)
(*                                                                         *)
(* A call of search_all_sites is a process with the positions              *)
(*   idle -> submit (loop of lines 71-79) -> collect (loop of lines 82-106)*)
(*        -> finish (lines 108-125) -> returned.                           *)
(* A submitted task is a future: pending (in the executor's queue),        *)
(* running (a worker is inside _search_hh/_search_geekjob, blocked in the  *)
(* adapter's HTTP request) or done (returned or raised).                   *)
(* Time is the value of time.perf_counter(), in whole ticks.               *)
(* A call ends in `raised` when submit() refuses the task (pool shut down) *)
(* and in `type_error` when it passes more arguments than line 37 takes.   *)
(*                                                                         *)
(* Around the service: the query parameters the adapters build             *)
(* (_build_params), the two presenters (cli_bot.py, telegram_bot/bot.py)   *)
(* and the Telegram conversation (start, handle_site_selection,            *)
(* handle_search, cancel), whose search is a call of the service above.    *)
(*                                                                         *)
(* Beside them, each with its own specification: _split_message, the CLI's *)
(* site prompt (_get_site_choice and run), the dispatcher's routing of an  *)
(* update through the handlers of setup_handlers, the webhook server and   *)
(* its event loop, handle_inline_query, and HHLocationService with its     *)
(* cache file.                                                             *)
(***************************************************************************)
EXTENDS Integers, Sequences, FiniteSets, TLC

\* ---------------------------------------------------------------- bounds
NumCalls == 2       \* search_all_sites calls that may be in flight together
MaxSearches == 1    \* searches one Telegram conversation partner makes
MaxSites == 2       \* longest site list a caller passes
MaxTime  == 3       \* the clock stops ticking here
MaxMsg   == 4       \* longest message handed to _split_message
MaxLimit == 3       \* largest max_length handed to _split_message
MaxUpdates == 3     \* updates the dispatcher is given
MaxHookUpdates == 5 \* updates Telegram posts to the webhook
MaxDuration == 6    \* longest time a task of the inline executor takes
MaxCacheAge == 8    \* days the cache file is followed for

Calls == 1..NumCalls

\* ------------------------------------------------------ program constants
HH       == "hh"
GEEKJOB  == "geekjob"
UNKNOWN  == "unknownsite"

AVAILABLE_SITES      == {HH, GEEKJOB}
DEFAULT_SITE_CHOICES == <<HH, GEEKJOB>>
DEFAULT_KEYWORD      == "php"
\* a pool with a single worker
max_workers_one      == 4 - 3
max_workers          == 4

None == "None"

\* values a caller may pass
SiteIds   == AVAILABLE_SITES \cup {UNKNOWN}
Keywords  == {"python", ""}
Locations == {None, "remote"}

RECURSIVE SeqsUpTo(_, _)
SeqsUpTo(S, n) ==
    IF n = 0 THEN {<<>>}
    ELSE LET shorter == SeqsUpTo(S, n - 1)
         IN  shorter \cup {Append(q, x) : q \in shorter, x \in S}

SiteLists == SeqsUpTo(SiteIds, MaxSites)

\* an extra_params argument: a dict over the keys below, or none at all.
\* A dict is a function on ExtraKeys; Absent marks a key the dict lacks.
Absent      == "absent"
ExtraKeys   == {"qs", "text", "page", "experience"}
ExtraValues == {Absent, None, "x"}
ExtraMaps   == [ExtraKeys -> ExtraValues]
NotPassed   == [passed |-> FALSE]
Passed(m)   == [passed |-> TRUE, map |-> m]

\* the dicts _get_search_parameters builds: keys out of its valid_keys
\* ('experience', 'page', ...), values as typed by the user
CliMaps ==
    {m \in ExtraMaps : /\ m["qs"] = Absent /\ m["text"] = Absent
                       /\ \A k \in ExtraKeys : m[k] # None}

\* a request; sites_given = FALSE is the Python default sites=None; these
\* calls pass keyword, location and sites and nothing more
Requests ==
    [active : {TRUE}, keyword : Keywords, location : Locations,
     sites_given : {TRUE}, sites : SiteLists, extra_params : {NotPassed}]
    \cup
    [active : {TRUE}, keyword : Keywords, location : Locations,
     sites_given : {FALSE}, sites : {<<>>}, extra_params : {NotPassed}]

\* the calls of the CLI run loop: a non-empty keyword, the chosen sites and,
\* as a fourth positional argument, the extra_params dict
CliRequests ==
    [active : {TRUE}, keyword : {"python"}, location : Locations,
     sites_given : {TRUE}, sites : SiteLists \ {<<>>},
     extra_params : {Passed(m) : m \in CliMaps}]

NoRequest ==
    [active |-> FALSE, keyword |-> "", location |-> None,
     sites_given |-> FALSE, sites |-> <<>>, extra_params |-> NotPassed]

VARIABLES
    request,        \* per call: the arguments of the call (an input)
    pc,             \* per call: position in search_all_sites
    sites,          \* per call: the local `sites`
    idx,            \* per call: position of the running for-loop
    search_tasks,   \* per call: the dict site -> future, in insertion order
    results,        \* per call: the dict `results`
    start_time,     \* per call: the local start_time
    futures,        \* every future the executor was given, by id
    queue,          \* the executor's work queue (future ids, FIFO)
    raw_jobs,       \* per adapter instance: self.raw_jobs
    hh_loc_errors,  \* whether HHSite.localization has the 'errors' table
    now,            \* time.perf_counter()
    overhead,       \* ticks that passed while some step other than an
                    \* adapter's HTTP wait was ready to run
    pool_shutdown,  \* the executor's _shutdown flag
    allowed_hh_params,  \* the configured list 'allowed_hh_params'
    adapter_in,     \* the arguments of the latest direct search_jobs call
    outbound,       \* the query parameters that call put into its request
    displayed,      \* per call: what each presenter did with its result
    conv,           \* the state of the Telegram conversation
    user_data,      \* context.user_data: the stored site list, if any
    hs,             \* the latest run of handle_search: its message, its
                    \* calls and replies, what it returned
    split_in,       \* the arguments of the latest _split_message call
    chunks,         \* the chunks that call returned
    cli_pc,         \* the position of CLIJobSearchBot.run()
    cli_in,         \* the line the user typed at the latest site prompt
    cli_ret,        \* what _get_site_choice returned
    cli_passed,     \* the site list run() handed to search_all_sites
    keyboard,       \* the options on the keyboard start() showed last
    update_in,      \* the latest update the dispatcher was given, and the
                    \* conversation state it met
    handled_by,     \* the callback that update was routed to
    delivered,      \* how many updates the dispatcher was given
    hook_pc,        \* the webhook server: starting, configuring, serving
    loop_running,   \* whether telegram_loop is being run by some thread
    loop_tasks,     \* the coroutines scheduled on telegram_loop, in order
    hook_queue,     \* the work queue of the webhook server's executor
    hook,           \* per update id: what became of the POST /webhook
    iq,             \* the latest run of handle_inline_query: its position,
                    \* its answer calls, its searches, the time it waited
    cache_file,     \* data/hh_locations_cache.json on disk
    hh_locations,   \* HHLocationService.locations (the ids of its table)
    loc_pc,         \* how the latest HHLocationService() ended
    built           \* what that construction met: the cache file as it
                    \* was, and the answer of the areas API

service_vars == <<request, pc, sites, idx, search_tasks, results, start_time,
                  futures, queue, raw_jobs, hh_loc_errors, now, overhead>>

adapter_vars == <<allowed_hh_params, adapter_in, outbound>>

bot_vars == <<conv, user_data, hs>>

\* the state of the program's other entry points
split_vars == <<split_in, chunks>>

cli_vars == <<cli_pc, cli_in, cli_ret, cli_passed>>

route_vars == <<keyboard, update_in, handled_by, delivered>>

\* the entry points that never meet the conversation
hook_vars == <<hook_pc, loop_running, loop_tasks, hook_queue, hook>>

inline_vars == <<iq>>

loc_vars == <<cache_file, hh_locations, loc_pc, built>>

desk_vars == <<split_vars, cli_vars, hook_vars, inline_vars, loc_vars>>

edge_vars == <<desk_vars, route_vars>>

\* the service, its pool, the adapters, the presenters and the bot
core_vars == <<service_vars, pool_shutdown, adapter_vars, displayed, bot_vars>>

\* what an entry point leaves alone
beside_split  == <<core_vars, route_vars, cli_vars, hook_vars, inline_vars, loc_vars>>
beside_cli    == <<core_vars, route_vars, split_vars, hook_vars, inline_vars, loc_vars>>
beside_hook   == <<core_vars, route_vars, split_vars, cli_vars, inline_vars, loc_vars>>
beside_inline == <<core_vars, route_vars, split_vars, cli_vars, hook_vars, loc_vars>>
beside_loc    == <<core_vars, route_vars, split_vars, cli_vars, hook_vars, inline_vars>>

\* the state that no step of search_all_sites and no worker writes
ambient == <<pool_shutdown, adapter_vars, displayed, bot_vars, edge_vars>>

vars == <<request, pc, sites, idx, search_tasks, results, start_time,
          futures, queue, raw_jobs, hh_loc_errors, now, overhead, ambient>>

\* ------------------------------------------------------------- site side
\* What a job board answers to one HTTP request.  A vacancy carries the
\* query text it was found for (q) and the request that fetched it (inv);
\* fmt tells whether _format_vacancy succeeds on it.
Vacancy(kw, f, ok) == [id |-> 1, q |-> kw, inv |-> f, fmt |-> ok]

Responses(kw, f) ==
    { [kind |-> "ok", vacancies |-> <<>>],
      [kind |-> "ok", vacancies |-> <<Vacancy(kw, f, TRUE)>>],
      [kind |-> "ok", vacancies |-> <<Vacancy(kw, f, FALSE)>>],
      [kind |-> "request_error",    vacancies |-> <<>>],
      [kind |-> "invalid_response", vacancies |-> <<>>],
      [kind |-> "processing_error", vacancies |-> <<>>] }

\* ------------------------------------------------------------- job items
\* An item of an adapter's job list is a dict (raw, formatted, source_data)
\* or a bare string (str).
FormattedText     == "vacancy text"
GeekjobFormatError == "Error: Could not process vacancy"
\* loc['errors'][key] of the HeadHunter localization, named by its key
HHErrorText(key)  == key

JobItem(text, v) == [raw |-> text, formatted |-> text, source_data |-> v]
StrItem(s)       == [str |-> s]
IsDict(job)      == "raw" \in DOMAIN job

\* str(job): the text in which _search_geekjob looks for error messages
StrOf(job) == IF IsDict(job) THEN job.formatted ELSE job.str

\* any(error_msg in str(job) for error_msg in ['No jobs found', 'Error:',
\* 'Failed to process', ...]): of the texts of this model only the
\* formatting error of GeekJobSite._format_vacancy contains one ('Error:').
ContainsErrorMsg(text) == text = GeekjobFormatError

Range(q) == {q[i] : i \in DOMAIN q}

RECURSIVE MapSeq(_, _)
MapSeq(Op(_), q) ==
    IF q = <<>> THEN <<>> ELSE <<Op(Head(q))>> \o MapSeq(Op, Tail(q))

RECURSIVE FilterSeq(_, _)
FilterSeq(Test(_), q) ==
    IF q = <<>> THEN <<>>
    ELSE (IF Test(Head(q)) THEN <<Head(q)>> ELSE <<>>) \o FilterSeq(Test, Tail(q))

\* ---------------------------------------------------------- the adapters
\* The outcome of a Python call: a returned job list, or a raised exception
\* with its str().  `stores` says whether the adapter assigned self.raw_jobs.
Returned(jobs, stores, raw) ==
    [raised |-> FALSE, jobs |-> jobs, msg |-> "", stores |-> stores, raw |-> raw]
Raised(msg) ==
    [raised |-> TRUE, jobs |-> <<>>, msg |-> msg, stores |-> FALSE, raw |-> <<>>]

FormatsOk(v) == v.fmt

\* HHSite.search_jobs.  On a failure it returns the localized error text
\* as the only "job"; the fallback localization has no 'errors' table, and
\* then the handler's loc['errors'] raises KeyError('errors').
HHFailure(key, loc_errors) ==
    IF loc_errors THEN Returned(<<StrItem(HHErrorText(key))>>, FALSE, <<>>)
                  ELSE Raised("'errors'")

HHJobItem(v) == JobItem(FormattedText, v)

HHSearchJobs(resp, loc_errors) ==
    CASE resp.kind = "ok" ->
           IF resp.vacancies = <<>> THEN Returned(<<>>, FALSE, <<>>)
           ELSE LET good == FilterSeq(FormatsOk, resp.vacancies)
                IN  Returned(MapSeq(HHJobItem, good), TRUE, good)
      [] resp.kind = "request_error"    -> HHFailure("connection_error", loc_errors)
      [] resp.kind = "invalid_response" -> HHFailure("api_error", loc_errors)
      [] OTHER                          -> HHFailure("processing_error", loc_errors)

\* GeekJobSite.search_jobs.  _format_vacancy never raises: a vacancy it
\* cannot format becomes a job whose text is the 'Error: ...' message.
GeekJobItem(v) ==
    JobItem(IF v.fmt THEN FormattedText ELSE GeekjobFormatError, v)

GeekJobSearchJobs(resp) ==
    CASE resp.kind = "ok" ->
           IF resp.vacancies = <<>> THEN Returned(<<>>, FALSE, <<>>)
           ELSE Returned(MapSeq(GeekJobItem, resp.vacancies), TRUE, resp.vacancies)
      [] OTHER -> Returned(<<>>, FALSE, <<>>)

\* ------------------------------------------------- the pool's task bodies
AsJobData(job) ==
    IF IsDict(job) THEN job
    ELSE [raw |-> job.str, formatted |-> job.str]

\* a task body that reads the adapter's stored self.raw_jobs instead of the
\* list the adapter returned to it
search_hh_shared(ret) ==
    IF ret.raised THEN ret
    ELSE [ret EXCEPT !.jobs = MapSeq(HHJobItem, raw_jobs[HH])]

\* JobSearchService._search_hh: every item becomes a job
search_hh(ret) ==
    IF ret.raised THEN ret
    ELSE [ret EXCEPT !.jobs = MapSeq(AsJobData, ret.jobs)]

NotErrorMsg(job) == ~ContainsErrorMsg(StrOf(job))

\* JobSearchService._search_geekjob: items with an error message are skipped
search_geekjob(ret) ==
    IF ret.raised THEN ret
    ELSE [ret EXCEPT !.jobs = MapSeq(AsJobData, FilterSeq(NotErrorMsg, ret.jobs))]

\* the function a worker runs for a site, applied to the HTTP response
RunTask(site, resp, loc_errors) ==
    IF site = HH THEN search_hh(HHSearchJobs(resp, loc_errors))
                 ELSE search_geekjob(GeekJobSearchJobs(resp))

\* ------------------------------------------------ the outbound request
\* Query parameters are a function on ParamKeys; Absent marks a parameter
\* the request does not carry.
ParamKeys ==
    {"text", "per_page", "order_by", "schedule", "area", "page", "rm", "qs"}
        \cup ExtraKeys

PerPage  == "default per_page"
OrderBy  == "default order_by"
AreaId   == "area id"
PageOne  == "1"
RmOne    == "1"

\* _build_params, lines 582-605: what HHSite sets itself
HHOwnParams(kw, loc) ==
    [k \in ParamKeys |->
        CASE k = "text"     -> kw
          [] k = "per_page" -> PerPage
          [] k = "order_by" -> OrderBy
          [] k = "schedule" -> IF loc = "remote" THEN "remote" ELSE Absent
          [] k = "area"     -> IF loc \notin {None, "", "remote"} THEN AreaId ELSE Absent
          [] OTHER          -> Absent]

\* the filter of lines 609-612: v is not None and k is on the allow-list
HHTakes(k, v, allowed) == v # Absent /\ v # None /\ k \in allowed

\* HHSite._build_params
HHBuildParams(kw, loc, extra, allowed) ==
    LET own == HHOwnParams(kw, loc)
    IN  IF ~extra.passed THEN own
        ELSE [k \in ParamKeys |->
                IF k \in ExtraKeys /\ HHTakes(k, extra.map[k], allowed)
                THEN extra.map[k] ELSE own[k]]

\* geekjob.py lines 158-163: what GeekJobSite sets itself
GeekJobOwnParams(kw) ==
    [k \in ParamKeys |->
        CASE k = "page"     -> PageOne
          [] k = "rm"       -> RmOne
          [] k = "qs"       -> kw
          [] k = "per_page" -> PerPage
          [] OTHER          -> Absent]

\* geekjob.py lines 158-164: **(extra_params or {}) comes last in the dict
\* display, so every key of the caller's dict is taken, over the adapter's own
GeekJobParams(kw, extra) ==
    LET own == GeekJobOwnParams(kw)
    IN  IF ~extra.passed THEN own
        ELSE [k \in ParamKeys |->
                IF k \in ExtraKeys /\ extra.map[k] # Absent
                THEN extra.map[k] ELSE own[k]]

NoAdapterCall ==
    [site |-> None, keyword |-> "", location |-> None, extra_params |-> NotPassed]

\* ------------------------------------------------------------- the state
NoRet == Returned(<<>>, FALSE, <<>>)
NoResponse == [kind |-> "none", vacancies |-> <<>>]

\* a future records, beside what the program keeps (state, ret, timing),
\* the arguments of its task and the HTTP response its adapter got (resp)

NewFuture(c, site, kw, loc) ==
    [call |-> c, site |-> site, keyword |-> kw, location |-> loc,
     extra_params |-> NotPassed,
     state |-> "pending", t0 |-> 0, timing |-> 0, ret |-> NoRet,
     resp |-> NoResponse]

\* `results` as built at lines 53-67 (the metadata copy is left out: it
\* repeats keyword, location, total_jobs and global_time_ms)
NewResults(kw, loc) ==
    [keyword |-> kw, location |-> loc, sites |-> <<>>,
     total_jobs |-> 0, global_time_ms |-> 0]

\* dict assignment d[k] = v on an insertion-ordered dict of futures:
\* a key that is already there keeps its place
RECURSIVE PutTask(_, _, _)
PutTask(tasks, site, f) ==
    IF tasks = <<>> THEN <<[site |-> site, fut |-> f]>>
    ELSE IF Head(tasks).site = site
         THEN <<[site |-> site, fut |-> f]>> \o Tail(tasks)
         ELSE <<Head(tasks)>> \o PutTask(Tail(tasks), site, f)

\* a failure that throws away what was collected before it
PutEntry_reset(m, site, entry) ==
    IF entry.status = "error" THEN (site :> entry) ELSE (site :> entry) @@ m

\* dict assignment results['sites'][k] = v
PutEntry(m, site, entry) == (site :> entry) @@ m

Running == {f \in DOMAIN futures : futures[f].state = "running"}

\* ------------------------------------------------------- the presenters
\* Both presenters walk the values of the result dict itself and take
\* those that are dicts: of the keys search_all_sites writes, 'sites' and
\* 'metadata' (which this model leaves out of NewResults).
IsDictField(k) == k \in {"sites", "metadata"}

DictFields(res) == {k \in DOMAIN res : IsDictField(k)}

\* result.get('jobs', []) on the dict stored under the key k
JobsUnder(res, k) == IF "jobs" \in DOMAIN res[k] THEN res[k]["jobs"] ELSE <<>>

\* the keys under which a presenter finds jobs
KeysWithJobs(res) == {k \in DictFields(res) : JobsUnder(res, k) # <<>>}

\* what a presenter did: the path it took and the jobs it showed
NotShown        == [path |-> "none", jobs |-> {}]
NoResultsPath   == [path |-> "no_results", jobs |-> {}]
DisplayRaised   == [path |-> "raised", jobs |-> {}]
ShowsJobs(res)  ==
    [path |-> "jobs",
     jobs |-> UNION {Range(JobsUnder(res, k)) : k \in KeysWithJobs(res)}]

\* the outcome of a search as its caller sees it
GotDict(res) == [kind |-> "dict", value |-> res]
GotNone      == [kind |-> "none"]
GotRaise     == [kind |-> "raised"]

\* JobSearchBot._display_results (cli_bot.py 378-418): line 379 is the
\* no-results test; line 387 reads results['global_time'] outside any try
CliDisplay(got) ==
    IF got.kind = "none" THEN NoResultsPath
    ELSE IF KeysWithJobs(got.value) = {} THEN NoResultsPath
    ELSE IF "global_time" \notin DOMAIN got.value THEN DisplayRaised
    ELSE ShowsJobs(got.value)

\* TelegramBot._display_telegram_results (bot.py 174-201); the whole body
\* is inside a try
TelegramDisplay(got) ==
    IF got.kind = "none" THEN NoResultsPath
    ELSE IF KeysWithJobs(got.value) = {} THEN NoResultsPath
    ELSE ShowsJobs(got.value)

NothingDisplayed == [c \in Calls |-> [cli |-> NotShown, telegram |-> NotShown]]

\* ------------------------------------------------- the Telegram bot
\* conversation states (bot.py line 27; ConversationHandler.END is -1)
END           == "END"
SELECT_SITE   == "SELECT_SITE"
ENTER_KEYWORD == "ENTER_KEYWORD"

\* a message text: a word, possibly with white space around it
MessageTexts == [padded : BOOLEAN, word : Keywords]

\* str.strip(): the white space around the word goes
Strip(text) == text.word

\* the texts the bot replies with
PleaseEnterText == "Please enter a keyword."
SearchingText   == "Searching for jobs..."
SearchErrorText == "An error occurred during search. Please try again."
NoResultsText   == "No results found. Please try again."
ResultsText     == "result messages"

NoSites == [has_sites |-> FALSE, sites |-> <<>>]

\* context.user_data.get('sites', default), line 154
StoredSites(ud) == IF ud.has_sites THEN ud.sites ELSE DEFAULT_SITE_CHOICES

NoHandling ==
    [phase |-> "none", text |-> [padded |-> FALSE, word |-> ""], call |-> 0,
     search_calls |-> <<>>, log_calls |-> 0, replies |-> <<>>,
     returned |-> "none"]

BotAtRest ==
    /\ conv = END
    /\ user_data = NoSites
    /\ hs = NoHandling

\* --------------------------------------------------- message splitting
\* A text is a sequence of characters; NL is the line feed, SP a blank.
NL == "line feed"
SP == "blank"
Chars == {"a", SP, NL}

IsSpace(ch) == ch \in {SP, NL}

\* str.strip(): white space goes from both ends
RECURSIVE LStrip(_)
LStrip(t) == IF t # <<>> /\ IsSpace(Head(t)) THEN LStrip(Tail(t)) ELSE t

RECURSIVE RStrip(_)
RStrip(t) ==
    IF t # <<>> /\ IsSpace(t[Len(t)]) THEN RStrip(SubSeq(t, 1, Len(t) - 1))
    ELSE t

StripText(t) == RStrip(LStrip(t))

\* message.split('\n'): the lines, at least one
RECURSIVE SplitLines(_, _)
SplitLines(t, line) ==
    IF t = <<>> THEN <<line>>
    ELSE IF Head(t) = NL THEN <<line>> \o SplitLines(Tail(t), <<>>)
    ELSE SplitLines(Tail(t), Append(line, Head(t)))

\* lines 305-307: the pieces of max_length cut off a line while it is
\* longer than max_length, and what is left of it
RECURSIVE CutLong(_, _)
CutLong(line, n) ==
    IF Len(line) > n
    THEN LET rest == CutLong(SubSeq(line, n + 1, Len(line)), n)
         IN  [pieces |-> <<SubSeq(line, 1, n)>> \o rest.pieces, left |-> rest.left]
    ELSE [pieces |-> <<>>, left |-> line]

\* one pass of the loop of lines 296-310 over the state (chunks, current)
SplitStep(st, line, n) ==
    IF Len(st.current) + Len(line) + 1 > n
    THEN IF st.current # <<>>
         THEN [chunks  |-> Append(st.chunks, StripText(st.current)),
               current |-> Append(line, NL)]
         ELSE LET cut == CutLong(line, n)
              IN  [chunks  |-> st.chunks \o cut.pieces,
                   current |-> IF cut.left # <<>> THEN Append(cut.left, NL)
                               ELSE <<>>]
    ELSE [chunks |-> st.chunks, current |-> st.current \o Append(line, NL)]

RECURSIVE SplitLoop(_, _, _)
SplitLoop(st, lines, n) ==
    IF lines = <<>> THEN st
    ELSE SplitLoop(SplitStep(st, Head(lines), n), Tail(lines), n)

\* TelegramBot._split_message
split_message(message, n) ==
    IF Len(message) <= n THEN <<message>>
    ELSE LET st == SplitLoop([chunks |-> <<>>, current |-> <<>>],
                             SplitLines(message, <<>>), n)
         IN  IF StripText(st.current) # <<>>
             THEN Append(st.chunks, StripText(st.current))
             ELSE st.chunks

NoSplit == [message |-> <<>>, max_length |-> 0]

\* ------------------------------------------------ the CLI's site prompt
\* a Python value of run()'s local `sites`: a list, a bool or None
ListValue(q) == [kind |-> "list", list |-> q, flag |-> FALSE]
BoolValue(b) == [kind |-> "bool", list |-> <<>>, flag |-> b]
NoneValue    == [kind |-> "None", list |-> <<>>, flag |-> FALSE]

\* Python's truth value: `if not sites`, `if selected`
Truthy(v) ==
    CASE v.kind = "list" -> v.list # <<>>
      [] v.kind = "bool" -> v.flag
      [] OTHER -> FALSE

\* a typed line: the comma-separated words of the line in lower case,
\* whether it was typed in upper case, whether blanks surround it
ChoiceWords == AVAILABLE_SITES \cup {UNKNOWN, "quit", "clear", ""}
TypedLines ==
    [padded : BOOLEAN, upper : BOOLEAN,
     words : SeqsUpTo(ChoiceWords, MaxSites) \ {<<>>}]

\* input(...).strip().lower(), as the list choice.split(',')
StripLower(line) == line.words

\* get_all_sites().keys()
all_sites == AVAILABLE_SITES

\* SettingsHelper.validate_site_choice(choice), choice a str
validate_site_choice(words) ==
    BoolValue(\A i \in DOMAIN words : words[i] \in all_sites)

\* one pass of the loop of _get_site_choice: the value returned, or
\* "again" when the choice is invalid and the prompt is repeated
Again == [kind |-> "again", list |-> <<>>, flag |-> FALSE]
get_site_choice(line) ==
    LET choice == StripLower(line)
        selected == validate_site_choice(choice)
    IN  IF choice = <<"">> THEN ListValue(DEFAULT_SITE_CHOICES)
        ELSE IF choice = <<"quit">> THEN NoneValue
        ELSE IF choice = <<"clear">> THEN ListValue(DEFAULT_SITE_CHOICES)
        ELSE IF Truthy(selected) THEN selected
        ELSE Again

NoLine == [padded |-> FALSE, upper |-> FALSE, words |-> <<>>]

CliAtRest ==
    /\ cli_pc = "prompt"
    /\ cli_in = NoLine
    /\ cli_ret = NoneValue
    /\ cli_passed = NoneValue

SplitAtRest ==
    /\ split_in = NoSplit
    /\ chunks = <<>>

\* ------------------------------------------------ the dispatcher
\* the commands and texts a user sends
CommandNames == {"start", "cancel", "help"}

\* site_id.title(), the name of a site without a configured name
Title(site) == IF site = HH THEN "Hh" ELSE "Geekjob"

\* the name the configuration or the translation table gives a site
DisplayName(site) == IF site = HH THEN "HeadHunter" ELSE "GeekJob"

\* SettingsHelper.get_site_name(site_id): the translation or configured
\* name if there is one, else the capitalised id
get_site_name(site, named) ==
    IF named THEN DisplayName(site) ELSE Title(site)

\* the keyboard of start(), lines 133-136
Keyboard(named) == {get_site_name(HH, named), get_site_name(GEEKJOB, named), "all"}

RouteWords ==
    Keywords \cup {HH, GEEKJOB, "all"}
             \cup {get_site_name(s, n) : s \in AVAILABLE_SITES, n \in BOOLEAN}

NoText == [padded |-> FALSE, word |-> ""]

Updates ==
    [kind : {"command"}, command : CommandNames, text : {NoText}]
    \cup
    [kind : {"message"}, command : {""},
     text : [padded : BOOLEAN, word : RouteWords]]

\* filters.Regex('^(hh|geekjob|all)$') on the text of a message
SelectSiteFilter(u) ==
    /\ u.kind = "message"
    /\ ~u.text.padded
    /\ u.text.word \in {HH, GEEKJOB, "all"}

\* filters.Text() & ~filters.COMMAND
KeywordFilter(u) == u.kind = "message"

IsCommand(u, name) == u.kind = "command" /\ u.command = name

\* ConversationHandler.check_update: the callback of the conversation
\* that takes the update in the state the conversation is in; the entry
\* points are looked at only when there is no conversation
ConversationCallback(state, u) ==
    IF state = END
    THEN IF IsCommand(u, "start") THEN "start" ELSE "nobody"
    ELSE IF state = SELECT_SITE /\ SelectSiteFilter(u) THEN "handle_site_selection"
    ELSE IF state = ENTER_KEYWORD /\ KeywordFilter(u) THEN "handle_search"
    ELSE IF IsCommand(u, "cancel") THEN "cancel"
    ELSE "nobody"

\* the handlers of setup_handlers that can take a message or a command of
\* CommandNames, in the order of their add_handler calls (all in group 0)
PlainStart   == [type |-> "command", command |-> "start", callback |-> "start"]
PlainHelp    == [type |-> "command", command |-> "help", callback |-> "help_command"]
Conversation == [type |-> "conversation", command |-> "", callback |-> ""]

Registered == <<PlainStart, PlainHelp, Conversation>>

\* the conversation handler with no handler registered ahead of it
ConversationAlone == <<Conversation>>

Nobody == [callback |-> "nobody", in_conversation |-> FALSE]

\* Handler.check_update
Takes(h, state, u) ==
    IF h.type = "command"
    THEN IF IsCommand(u, h.command)
         THEN [callback |-> h.callback, in_conversation |-> FALSE]
         ELSE Nobody
    ELSE [callback |-> ConversationCallback(state, u),
          in_conversation |-> ConversationCallback(state, u) # "nobody"]

\* process_update: within a group the first handler whose check_update
\* accepts the update handles it, and no other
RECURSIVE FirstMatch(_, _, _)
FirstMatch(handlers, state, u) ==
    IF handlers = <<>> THEN Nobody
    ELSE IF Takes(Head(handlers), state, u) # Nobody
         THEN Takes(Head(handlers), state, u)
         ELSE FirstMatch(Tail(handlers), state, u)

NoUpdate == [kind |-> "none", command |-> "", text |-> NoText, state |-> END]

RouteAtRest ==
    /\ keyboard = {}
    /\ update_in = NoUpdate
    /\ handled_by = "nobody"
    /\ delivered = 0

\* ------------------------------------------------ the webhook server
\* ThreadPoolExecutor(max_workers=4) of webhook_server.py and server.py
hook_workers == 4

HookIds == 1..MaxHookUpdates

\* the coroutine of run_server's set_webhook call
SetWebhook == 0

\* the updates whose task a worker of the executor is running
HookRunning == {u \in HookIds : hook[u] = "waiting"}

HookAtRest ==
    /\ hook_pc = "starting"
    /\ loop_running = FALSE
    /\ loop_tasks = <<>>
    /\ hook_queue = <<>>
    /\ hook = [u \in HookIds |-> "none"]

\* ------------------------------------------------ inline queries
\* the timeouts of the three asyncio.wait_for calls, in seconds
SearchTimeout == 5
LogTimeout    == 2
FormatTimeout == 3

\* how long an executor task may take, in seconds
Durations == 0..MaxDuration

Min(a, b) == IF a < b THEN a ELSE b

\* asyncio.wait_for(task, timeout): whether TimeoutError is raised for a
\* task that takes d seconds, and how long the handler waited
TimedOut(d, timeout) == d > timeout
Waited(d, timeout)   == Min(d, timeout)

\* an answer call that reports through the outer except whatever happened
AfterAnswer_always_report(stage, ok) ==
    IF stage = "unexpected" THEN "done" ELSE "unexpected"

\* where handle_inline_query goes after update.inline_query.answer, called
\* at the given stage, returned (ok) or raised
AfterAnswer(stage, ok) ==
    IF ok THEN "done"                               \* 63, 96, 115, 170-172, 168
    ELSE IF stage = "results" THEN "retry"          \* 149-167
    ELSE IF stage = "unexpected" THEN "done"        \* 199-200
    ELSE "unexpected"                               \* 174-198

\* the positions at which the next thing the handler does is an answer call
AnswerStages == {"help", "timeout", "error", "results", "retry", "unexpected"}

NoInlineQuery ==
    [pc |-> "idle", query |-> "", answers |-> <<>>, searches |-> 0,
     waited |-> 0]

InlineAtRest == iq = NoInlineQuery

\* ------------------------------------------------ the HH location table
CACHE_EXPIRY_DAYS == 7

\* the area ids the areas API knows
HHAreas == {"113", "1"}

\* what GET https://api.hh.ru/areas comes to: a failed request, a body
\* that is no list, or a list holding the given areas
ApiAnswers ==
    [kind : {"request_error", "not_list"}, areas : {{}}]
    \cup [kind : {"list"}, areas : SUBSET HHAreas]

NoAnswer == [kind |-> "not_asked", areas |-> {}]

\* the cache file: whether it is there, its age in days, whether its
\* content is a dict with a 'locations' entry, and that entry
NoFile == [exists |-> FALSE, age |-> 0, valid |-> FALSE, table |-> {}]
SavedFile(table) == [exists |-> TRUE, age |-> 0, valid |-> TRUE, table |-> table]

\* a cache that never goes out of date
Expired_never(age) == FALSE

\* line 63
Expired(age) == age >= CACHE_EXPIRY_DAYS

\* _load_cache: whether it returns True
load_cache(file) == file.exists /\ ~Expired(file.age) /\ file.valid

\* _fetch_locations with self.locations empty: the table it leaves, whether
\* it raises RuntimeError, whether it writes the cache
fetch_locations(api) ==
    IF api.kind = "list"
    THEN [locations |-> api.areas, raises |-> FALSE, saves |-> TRUE]
    ELSE [locations |-> {}, raises |-> TRUE, saves |-> FALSE]

LocAtRest ==
    /\ cache_file = NoFile
    /\ hh_locations = {}
    /\ loc_pc = "none"
    /\ built = [cache |-> NoFile, api |-> NoAnswer]

EdgeAtRest ==
    /\ SplitAtRest
    /\ CliAtRest
    /\ RouteAtRest
    /\ HookAtRest
    /\ InlineAtRest
    /\ LocAtRest

\* no adapter has been called directly; the allow-list is as configured
AdaptersAtRest ==
    /\ allowed_hh_params = {}
    /\ adapter_in = NoAdapterCall
    /\ outbound = [k \in ParamKeys |-> Absent]

InitCommon ==
    /\ EdgeAtRest
    /\ AdaptersAtRest
    /\ BotAtRest
    /\ displayed = NothingDisplayed
    /\ pc = [c \in Calls |-> "idle"]
    /\ sites = [c \in Calls |-> <<>>]
    /\ idx = [c \in Calls |-> 1]
    /\ search_tasks = [c \in Calls |-> <<>>]
    /\ results = [c \in Calls |-> NewResults("", None)]
    /\ start_time = [c \in Calls |-> 0]
    /\ futures = <<>>
    /\ queue = <<>>
    /\ raw_jobs = [s \in AVAILABLE_SITES |-> <<>>]
    /\ hh_loc_errors \in BOOLEAN
    /\ now = 0
    /\ overhead = 0
    /\ pool_shutdown = FALSE

\* one caller, any request
Init ==
    /\ request \in {r \in [Calls -> Requests \cup {NoRequest}] :
                      \A c \in Calls : r[c].active <=> c = 1}
    /\ InitCommon

\* ------------------------------------------------------ search_all_sites
\* where the call goes after the submit loop
AfterSubmit(tasks) == IF tasks = <<>> THEN "finish" ELSE "collect"

\* the signature of line 37 has no fourth parameter: a call that passes
\* extra_params is refused with TypeError before the body runs
AcceptsCall(r) == ~r.extra_params.passed

\* the call and lines 49-67
Begin(c) ==
    /\ pc[c] = "idle"
    /\ request[c].active
    /\ LET r  == request[c]
           ss == IF r.sites_given THEN r.sites ELSE DEFAULT_SITE_CHOICES
       IN  IF ~AcceptsCall(r)
           THEN /\ pc' = [pc EXCEPT ![c] = "type_error"]
                /\ UNCHANGED <<sites, results, start_time, search_tasks, idx>>
           ELSE /\ sites' = [sites EXCEPT ![c] = ss]
                /\ pc' = [pc EXCEPT ![c] = IF ss = <<>> THEN AfterSubmit(<<>>) ELSE "submit"]
                /\ results' = [results EXCEPT ![c] = NewResults(r.keyword, r.location)]
                /\ start_time' = [start_time EXCEPT ![c] = now]
                /\ search_tasks' = [search_tasks EXCEPT ![c] = <<>>]
                /\ idx' = [idx EXCEPT ![c] = 1]
    /\ UNCHANGED <<request, futures, queue, raw_jobs, hh_loc_errors, now, overhead>>
    /\ UNCHANGED ambient

\* a submit loop without the 'geekjob' branch
Dispatched_hh_only(site) == site = HH

\* a submit loop that submits a task for whatever id it is given
Dispatched_any(site) == TRUE

\* the two branches of lines 72-79: the sites a task is submitted for
Dispatched(site) == site = HH \/ site = GEEKJOB

\* an executor that takes work after shutdown()
PoolAccepts_always == TRUE

\* ThreadPoolExecutor.submit raises RuntimeError once shutdown() was called
PoolAccepts == ~pool_shutdown

\* one iteration of the loop of lines 71-79; the loop is outside every try,
\* so what submit() raises leaves search_all_sites
Submit(c) ==
    /\ pc[c] = "submit"
    /\ LET site  == sites[c][idx[c]]
           f     == Len(futures) + 1
           tasks == IF Dispatched(site) THEN PutTask(search_tasks[c], site, f)
                    ELSE search_tasks[c]
           last  == idx[c] = Len(sites[c])
       IN  IF Dispatched(site) /\ ~PoolAccepts
           THEN /\ pc' = [pc EXCEPT ![c] = "raised"]
                /\ UNCHANGED <<futures, queue, search_tasks, idx>>
           ELSE /\ IF Dispatched(site)
                   THEN /\ futures' = Append(futures,
                               NewFuture(c, site, request[c].keyword, request[c].location))
                        /\ queue' = Append(queue, f)
                   ELSE UNCHANGED <<futures, queue>>
                /\ search_tasks' = [search_tasks EXCEPT ![c] = tasks]
                /\ idx' = [idx EXCEPT ![c] = IF last THEN 1 ELSE idx[c] + 1]
                /\ pc' = [pc EXCEPT ![c] = IF last THEN AfterSubmit(tasks) ELSE "submit"]
    /\ UNCHANGED <<request, sites, results, start_time, raw_jobs,
                   hh_loc_errors, now, overhead>>
    /\ UNCHANGED ambient

\* an except branch that reports the failed site as an empty success
SiteEntry_swallow(fu) ==
    [jobs |-> fu.ret.jobs, jobs_count |-> Len(fu.ret.jobs),
     timing_ms |-> fu.timing * 1000, status |-> "success"]

\* lines 88-95 and 99-106: the entry of a site
SiteEntry(fu) ==
    IF fu.ret.raised
    THEN [jobs |-> <<>>, jobs_count |-> 0, timing_ms |-> 0,
          status |-> "error", error |-> fu.ret.msg]
    ELSE [jobs |-> fu.ret.jobs, jobs_count |-> Len(fu.ret.jobs),
          timing_ms |-> fu.timing * 1000, status |-> "success"]

\* when the future f finished
FinishTime(f) == futures[f].t0 + futures[f].timing

\* the finished futures of f's call that finished before f (ties by id)
DoneBefore(f) ==
    {g \in DOMAIN futures :
        /\ futures[g].call = futures[f].call
        /\ futures[g].state = "done"
        /\ \/ FinishTime(g) < FinishTime(f)
           \/ FinishTime(g) = FinishTime(f) /\ g < f}

\* the i-th site paired with the i-th future to complete, as a loop over
\* zip(search_tasks, as_completed(...)) would do
TaskFuture_as_completed(tasks, i) ==
    LET done == {f \in DOMAIN futures :
                    /\ futures[f].state = "done"
                    /\ \E k \in DOMAIN tasks : tasks[k].fut = f}
        ith  == {f \in done : Cardinality(DoneBefore(f) \cap done) = i - 1}
    IN  IF ith = {} THEN futures[tasks[i].fut]
        ELSE futures[CHOOSE f \in ith : TRUE]

\* line 82: the future stored under the i-th key of search_tasks
TaskFuture(tasks, i) == futures[tasks[i].fut]

\* a wait that only a normal return of the task ends
ResultReady_returned(fu) == fu.state = "done" /\ ~fu.ret.raised

\* line 84: future.result() comes back once the task has returned or raised
ResultReady(fu) == fu.state = "done"

\* one iteration of the loop of lines 82-106; future.result() blocks until
\* the task is done
Collect(c) ==
    /\ pc[c] = "collect"
    /\ LET t    == search_tasks[c][idx[c]]
           fu   == TaskFuture(search_tasks[c], idx[c])
           last == idx[c] = Len(search_tasks[c])
       IN  /\ ResultReady(fu)
           /\ results' = [results EXCEPT
                  ![c].sites = PutEntry(@, t.site, SiteEntry(fu)),
                  ![c].total_jobs = IF fu.ret.raised THEN @ ELSE @ + Len(fu.ret.jobs)]
           /\ idx' = [idx EXCEPT ![c] = IF last THEN 1 ELSE idx[c] + 1]
           /\ pc' = [pc EXCEPT ![c] = IF last THEN "finish" ELSE "collect"]
    /\ UNCHANGED <<request, sites, search_tasks, start_time, futures, queue,
                   raw_jobs, hh_loc_errors, now, overhead>>
    /\ UNCHANGED ambient

\* the two clock readings subtracted the wrong way round
GlobalTimeMs_swapped(start, end) == (start - end) * 1000

\* lines 109-110
GlobalTimeMs(start, end) == (end - start) * 1000

\* lines 108-125
Finish(c) ==
    /\ pc[c] = "finish"
    /\ results' = [results EXCEPT ![c].global_time_ms = GlobalTimeMs(start_time[c], now)]
    /\ pc' = [pc EXCEPT ![c] = "returned"]
    /\ UNCHANGED <<request, sites, idx, search_tasks, start_time, futures,
                   queue, raw_jobs, hh_loc_errors, now, overhead>>
    /\ UNCHANGED ambient

\* ------------------------------------------------------- the worker pool
\* an idle worker takes the oldest queued task and runs it up to the
\* adapter's HTTP request (lines 138-139, 169-170)
WorkerStart ==
    /\ queue # <<>>
    /\ Cardinality(Running) < max_workers
    /\ futures' = [futures EXCEPT ![Head(queue)].state = "running",
                                  ![Head(queue)].t0 = now]
    /\ queue' = Tail(queue)
    /\ UNCHANGED <<request, pc, sites, idx, search_tasks, results, start_time,
                   raw_jobs, hh_loc_errors, now, overhead>>
    /\ UNCHANGED ambient

\* the HTTP exchange ends and the task runs to its end (lines 139-156,
\* 170-193); the adapter stores self.raw_jobs on its way out
WorkerFinish(f) ==
    /\ futures[f].state = "running"
    /\ \E resp \in Responses(futures[f].keyword, f) :
         LET ret == RunTask(futures[f].site, resp, hh_loc_errors)
         IN  /\ futures' = [futures EXCEPT ![f].state = "done",
                                           ![f].ret = ret,
                                           ![f].resp = resp,
                                           ![f].timing = now - futures[f].t0]
             /\ raw_jobs' = IF ret.stores
                            THEN [raw_jobs EXCEPT ![futures[f].site] = ret.raw]
                            ELSE raw_jobs
    /\ UNCHANGED <<request, pc, sites, idx, search_tasks, results, start_time,
                   queue, hh_loc_errors, now, overhead>>
    /\ UNCHANGED ambient

\* ------------------------------------------------------------- the clock
InFlight(c) == pc[c] \in {"submit", "collect", "finish"}

\* some step that is not the wait for an HTTP response is ready to run
StepReady ==
    \/ \E c \in Calls : pc[c] \in {"submit", "finish"}
    \/ \E c \in Calls : /\ pc[c] = "collect"
                        /\ futures[search_tasks[c][idx[c]].fut].state = "done"
    \/ queue # <<>> /\ Cardinality(Running) < max_workers

\* time passes (observed only between the two perf_counter() reads of a call)
Tick ==
    /\ \E c \in Calls : InFlight(c)
    /\ now < MaxTime
    /\ now' = now + 1
    /\ overhead' = IF StepReady THEN overhead + 1 ELSE overhead
    /\ UNCHANGED <<request, pc, sites, idx, search_tasks, results, start_time,
                   futures, queue, raw_jobs, hh_loc_errors>>
    /\ UNCHANGED ambient

\* JobSearchService.shutdown: the executor stops taking work; what it was
\* given before still runs (wait=True only makes the caller wait for it)
Shutdown ==
    /\ UNCHANGED edge_vars
    /\ ~pool_shutdown
    /\ pool_shutdown' = TRUE
    /\ UNCHANGED <<service_vars, adapter_vars, displayed, bot_vars>>

Service ==
    \/ \E c \in Calls : Begin(c)
    \/ \E c \in Calls : Submit(c)
    \/ \E c \in Calls : Collect(c)
    \/ \E c \in Calls : Finish(c)
    \/ WorkerStart
    \/ \E f \in DOMAIN futures : WorkerFinish(f)

Next == Service

Spec == Init /\ [][Next]_vars

\* ------------------------------------------------------ one timed caller
\* the requests whose timing is looked at: no known site at all, or both
\* known sites

TimedRequests ==
    {r \in Requests :
        /\ r.keyword = "python" /\ r.location = None
        /\ \/ ~r.sites_given
           \/ Range(r.sites) \subseteq {UNKNOWN}
           \/ r.sites \in {<<HH, GEEKJOB>>, <<GEEKJOB, HH>>}}

InitTimed ==
    /\ request \in {r \in [Calls -> TimedRequests \cup {NoRequest}] :
                      \A c \in Calls : r[c].active <=> c = 1}
    /\ InitCommon

NextTimed == Service \/ Tick

SpecTimed == InitTimed /\ [][NextTimed]_vars

\* ------------------------------------------------ several callers at once
\* every call slot has a caller; the requests are the ones the bots send
\* (a keyword, no location), each for HeadHunter alone
ConcRequests ==
    {r \in Requests : /\ r.location = None
                      /\ r.sites_given /\ r.sites = <<HH>>}

InitConc ==
    /\ request \in [Calls -> ConcRequests]
    /\ InitCommon

NextConc == Service

SpecConc == InitConc /\ [][NextConc]_vars

\* --------------------------------- several callers, each adapter ends
\* every call slot has a caller asking HeadHunter for the same keyword;
\* the tasks of all of them share the executor of line 35
SharedRequests ==
    {r \in Requests : /\ r.keyword = "python" /\ r.location = None
                      /\ r.sites_given /\ r.sites = <<HH>>}

InitShared ==
    /\ request \in [Calls -> SharedRequests]
    /\ InitCommon

\* every thread that can run does run: the caller's thread inside
\* search_all_sites, an idle worker of the pool with a task queued; and
\* every adapter call, once started, returns or raises
Scheduling ==
    /\ \A c \in Calls :
          WF_vars(Begin(c) \/ Submit(c) \/ Collect(c) \/ Finish(c))
    /\ WF_vars(WorkerStart)
    /\ \A c \in Calls :
          WF_vars(\E f \in DOMAIN futures :
                     futures[f].call = c /\ WorkerFinish(f))

SpecShared == InitShared /\ [][NextConc]_vars /\ Scheduling

\* ------------------------------------------- one caller and a shutdown
\* shutdown() may be called at any moment of the call, or before it
NextShutdown == Service \/ Shutdown

SpecShutdown == Init /\ [][NextShutdown]_vars

\* --------------------------------- one caller, the CLI's calls included
InitArgs ==
    /\ request \in {r \in [Calls -> Requests \cup CliRequests \cup {NoRequest}] :
                      \A c \in Calls : r[c].active <=> c = 1}
    /\ InitCommon

NextArgs == Service

SpecArgs == InitArgs /\ [][NextArgs]_vars

\* ------------------------------------------- the adapters called directly
\* the lists a deployment may configure as 'allowed_hh_params'
AllowLists == {{}, {"experience"}, {"experience", "page"}}

\* HHSite.search_jobs(keyword, location, extra_params) up to its request
HHSearchCalled(kw, loc, extra) ==
    /\ UNCHANGED edge_vars
    /\ adapter_in' = [site |-> HH, keyword |-> kw, location |-> loc,
                      extra_params |-> extra]
    /\ outbound' = HHBuildParams(kw, loc, extra, allowed_hh_params)
    /\ UNCHANGED <<service_vars, pool_shutdown, allowed_hh_params, displayed,
                   bot_vars>>

\* GeekJobSite.search_jobs(keyword, location, extra_params) up to its request
GeekJobSearchCalled(kw, loc, extra) ==
    /\ UNCHANGED edge_vars
    /\ adapter_in' = [site |-> GEEKJOB, keyword |-> kw, location |-> loc,
                      extra_params |-> extra]
    /\ outbound' = GeekJobParams(kw, extra)
    /\ UNCHANGED <<service_vars, pool_shutdown, allowed_hh_params, displayed,
                   bot_vars>>

ExtraArgs == {NotPassed} \cup {Passed(m) : m \in ExtraMaps}

InitParams ==
    /\ request = [c \in Calls |-> NoRequest]
    /\ pc = [c \in Calls |-> "idle"]
    /\ sites = [c \in Calls |-> <<>>]
    /\ idx = [c \in Calls |-> 1]
    /\ search_tasks = [c \in Calls |-> <<>>]
    /\ results = [c \in Calls |-> NewResults("", None)]
    /\ start_time = [c \in Calls |-> 0]
    /\ futures = <<>>
    /\ queue = <<>>
    /\ raw_jobs = [s \in AVAILABLE_SITES |-> <<>>]
    /\ hh_loc_errors = TRUE
    /\ now = 0
    /\ overhead = 0
    /\ pool_shutdown = FALSE
    /\ allowed_hh_params \in AllowLists
    /\ adapter_in = NoAdapterCall
    /\ outbound = [k \in ParamKeys |-> Absent]
    /\ displayed = NothingDisplayed
    /\ BotAtRest
    /\ EdgeAtRest

NextParams ==
    \/ \E kw \in Keywords, loc \in Locations, extra \in ExtraArgs :
          HHSearchCalled(kw, loc, extra)
    \/ \E kw \in Keywords, loc \in Locations, extra \in ExtraArgs :
          GeekJobSearchCalled(kw, loc, extra)

SpecParams == InitParams /\ [][NextParams]_vars

\* ------------------------------------- one caller, then the presenters
\* the CLI hands the returned dict to _display_results (cli_bot.py 376)
CliDisplays(c) ==
    /\ UNCHANGED edge_vars
    /\ pc[c] = "returned"
    /\ displayed[c].cli = NotShown
    /\ displayed' = [displayed EXCEPT ![c].cli = CliDisplay(GotDict(results[c]))]
    /\ UNCHANGED <<service_vars, pool_shutdown, adapter_vars, bot_vars>>

\* the bot hands the returned dict to _display_telegram_results (bot.py 167)
TelegramDisplays(c) ==
    /\ UNCHANGED edge_vars
    /\ pc[c] = "returned"
    /\ displayed[c].telegram = NotShown
    /\ displayed' = [displayed EXCEPT
                        ![c].telegram = TelegramDisplay(GotDict(results[c]))]
    /\ UNCHANGED <<service_vars, pool_shutdown, adapter_vars, bot_vars>>

NextPresent ==
    \/ Service
    \/ \E c \in Calls : CliDisplays(c)
    \/ \E c \in Calls : TelegramDisplays(c)

SpecPresent == Init /\ [][NextPresent]_vars

\* ------------------------------------------- the Telegram conversation
\* The dispatcher runs one handler at a time: while handle_search waits
\* for its search, no other update is handled.
Busy == hs.phase = "searching"

\* /start, the entry point (bot.py 131-150)
Start ==
    /\ UNCHANGED desk_vars
    /\ conv = END
    /\ ~Busy
    /\ conv' = SELECT_SITE
    /\ UNCHANGED <<service_vars, pool_shutdown, adapter_vars, displayed,
                   user_data, hs>>

\* the texts the SELECT_SITE filter lets through (handlers_main.py 124-126)
SiteChoices == {HH, GEEKJOB, "all"}

\* handle_site_selection (bot.py 318-330)
HandleSiteSelection(text) ==
    /\ UNCHANGED desk_vars
    /\ conv = SELECT_SITE
    /\ ~Busy
    /\ user_data' = [has_sites |-> TRUE,
                     sites |-> IF text = "all" THEN DEFAULT_SITE_CHOICES
                               ELSE <<text>>]
    /\ conv' = ENTER_KEYWORD
    /\ UNCHANGED <<service_vars, pool_shutdown, adapter_vars, displayed, hs>>

\* /cancel, the fallback (bot.py 332-334)
Cancel ==
    /\ UNCHANGED desk_vars
    /\ conv # END
    /\ ~Busy
    /\ conv' = END
    /\ UNCHANGED <<service_vars, pool_shutdown, adapter_vars, displayed,
                   user_data, hs>>

\* a test that takes every keyword for a keyword
IsBlank_never(keyword) == FALSE

\* line 156: `if not keyword`
IsBlank(keyword) == keyword = ""

\* a call that searches the default sites whatever was selected
SearchArgs_default_sites(keyword, stored) ==
    [keyword |-> keyword, location |-> None, sites |-> DEFAULT_SITE_CHOICES]

\* line 161: the arguments of the search_all_sites call
SearchArgs(keyword, stored) ==
    [keyword |-> keyword, location |-> None, sites |-> stored]

\* the call slot of the bot's next search
NextSlot == Cardinality({c \in Calls : request[c].active}) + 1

\* handle_search, lines 153-161: up to the search_all_sites call
HandleSearch(text) ==
    /\ UNCHANGED desk_vars
    /\ conv = ENTER_KEYWORD
    /\ ~Busy
    /\ LET keyword == Strip(text)
           args    == SearchArgs(keyword, StoredSites(user_data))
           c       == NextSlot
       IN  IF IsBlank(keyword)
           THEN /\ hs' = [phase |-> "done", text |-> text, call |-> 0,
                          search_calls |-> <<>>, log_calls |-> 0,
                          replies |-> <<PleaseEnterText>>,
                          returned |-> ENTER_KEYWORD]
                /\ conv' = ENTER_KEYWORD
                /\ UNCHANGED request
           ELSE /\ c <= MaxSearches
                /\ c \in Calls
                /\ request' = [request EXCEPT ![c] =
                        [active |-> TRUE, keyword |-> args.keyword,
                         location |-> args.location, sites_given |-> TRUE,
                         sites |-> args.sites, extra_params |-> NotPassed]]
                /\ hs' = [phase |-> "searching", text |-> text, call |-> c,
                          search_calls |-> <<args>>, log_calls |-> 0,
                          replies |-> <<SearchingText>>, returned |-> "none"]
                /\ UNCHANGED conv
    /\ UNCHANGED <<pc, sites, idx, search_tasks, results, start_time, futures,
                   queue, raw_jobs, hh_loc_errors, now, overhead,
                   pool_shutdown, adapter_vars, displayed, user_data>>

\* an except branch that asks for the keyword again
OnSearchError_retry == ENTER_KEYWORD

\* line 172: what handle_search returns from its except branch
OnSearchError == END

\* how the search_all_sites call of handle_search ended
SearchOutcome(c) ==
    IF pc[c] = "raised" THEN GotRaise ELSE GotDict(results[c])

\* the reply _display_telegram_results sends
DisplayReply(out) ==
    IF out.path = "no_results" THEN NoResultsText ELSE ResultsText

\* handle_search, lines 161-172: from the end of the search on
HandleSearchReturn ==
    /\ UNCHANGED edge_vars
    /\ Busy
    /\ pc[hs.call] \in {"returned", "raised"}
    /\ LET got == SearchOutcome(hs.call)
           out == TelegramDisplay(got)
       IN  IF got.kind = "raised"
           THEN /\ hs' = [hs EXCEPT !.phase = "done",
                                    !.replies = Append(@, SearchErrorText),
                                    !.returned = OnSearchError]
                /\ conv' = OnSearchError
                /\ UNCHANGED displayed
           ELSE /\ hs' = [hs EXCEPT !.phase = "done",
                                    !.log_calls = @ + 1,
                                    !.replies = Append(@, DisplayReply(out)),
                                    !.returned = END]
                /\ conv' = END
                /\ displayed' = [displayed EXCEPT ![hs.call].telegram = out]
    /\ UNCHANGED <<service_vars, pool_shutdown, adapter_vars, user_data>>

Bot ==
    \/ Start /\ UNCHANGED route_vars
    \/ \E text \in SiteChoices : HandleSiteSelection(text) /\ UNCHANGED route_vars
    \/ \E text \in MessageTexts : HandleSearch(text) /\ UNCHANGED route_vars
    \/ HandleSearchReturn
    \/ Cancel /\ UNCHANGED route_vars

InitBot ==
    /\ request = [c \in Calls |-> NoRequest]
    /\ InitCommon

\* the service, the adapters and the bot at rest
Idle ==
    /\ request = [c \in Calls |-> NoRequest]
    /\ InitCommon
    /\ hh_loc_errors

\* the bot as it runs: nothing in its process calls shutdown()
NextBot == Service \/ Bot

SpecBot == InitBot /\ [][NextBot]_vars

\* the bot with its service's pool shut down from outside at any moment
NextBotDown == Service \/ Bot \/ Shutdown

SpecBotDown == InitBot /\ [][NextBotDown]_vars

\* ------------------------------------------------ routing an update
\* start() run by a plain CommandHandler: the keyboard is sent and the
\* state start() returns is dropped
StartPlain ==
    /\ UNCHANGED <<core_vars, desk_vars>>

\* help_command: a reply and nothing else
HelpCommand ==
    /\ UNCHANGED <<core_vars, desk_vars>>

\* no handler takes the update
Unhandled ==
    /\ UNCHANGED <<core_vars, desk_vars>>

\* the dispatcher is given the update u, with `handlers` registered
Deliver(handlers, u) ==
    /\ ~Busy
    /\ delivered < MaxUpdates
    /\ delivered' = delivered + 1
    /\ update_in' = [kind |-> u.kind, command |-> u.command, text |-> u.text,
                     state |-> conv]
    /\ LET m == FirstMatch(handlers, conv, u)
       IN  /\ handled_by' = m.callback
           /\ IF m.callback = "start"
              THEN \E named \in BOOLEAN : keyboard' = Keyboard(named)
              ELSE UNCHANGED keyboard
           /\ CASE m.callback = "start" /\ m.in_conversation -> Start
                [] m.callback = "start" /\ ~m.in_conversation -> StartPlain
                [] m.callback = "handle_site_selection" ->
                       HandleSiteSelection(u.text.word)
                [] m.callback = "handle_search" -> HandleSearch(u.text)
                [] m.callback = "cancel" -> Cancel
                [] m.callback = "help_command" -> HelpCommand
                [] OTHER -> Unhandled

\* the bot as setup_handlers registers it
NextRoute == \E u \in Updates : Deliver(Registered, u)

SpecRoute == Idle /\ [][NextRoute]_vars

\* the conversation handler by itself, with the service behind it
NextConversation ==
    \/ \E u \in Updates : Deliver(ConversationAlone, u)
    \/ HandleSearchReturn
    \/ Service

SpecConversation == Idle /\ [][NextConversation]_vars

\* ------------------------------------------------ serving the webhook
\* run_server, debug off: run_until_complete(set_webhook(...)) runs
\* telegram_loop in the main thread until that one coroutine is done
ConfigureWebhook ==
    /\ hook_pc = "starting"
    /\ hook_pc' = "configuring"
    /\ loop_running' = TRUE
    /\ loop_tasks' = <<SetWebhook>>
    /\ UNCHANGED <<hook_queue, hook, beside_hook>>

\* run_server, debug on: straight to Flask
SkipWebhook ==
    /\ hook_pc = "starting"
    /\ hook_pc' = "serving"
    /\ UNCHANGED <<loop_running, loop_tasks, hook_queue, hook, beside_hook>>

\* the running loop runs the coroutine scheduled first.  set_webhook done
\* or failed: run_until_complete returns, the loop stops, and the main
\* thread goes on to app.run()/serve(), which never returns.  A
\* process_update done: its future gets a result, the worker waiting in
\* .result() returns and is free again.
LoopStep ==
    /\ loop_running
    /\ loop_tasks # <<>>
    /\ loop_tasks' = Tail(loop_tasks)
    /\ IF Head(loop_tasks) = SetWebhook
       THEN /\ loop_running' = FALSE
            /\ hook_pc' = "serving"
            /\ UNCHANGED hook
       ELSE /\ hook' = [hook EXCEPT ![Head(loop_tasks)] = "done"]
            /\ UNCHANGED <<loop_running, hook_pc>>
    /\ UNCHANGED <<hook_queue, beside_hook>>

\* POST /webhook with the next update: 500 when the body cannot be read as
\* an update, else the task is submitted and 200 is returned
Webhook(u, parses) ==
    /\ hook_pc = "serving"
    /\ hook[u] = "none"
    /\ \A v \in HookIds : v < u => hook[v] # "none"
    /\ IF parses
       THEN /\ hook' = [hook EXCEPT ![u] = "accepted"]
            /\ hook_queue' = Append(hook_queue, u)
       ELSE /\ hook' = [hook EXCEPT ![u] = "rejected"]
            /\ UNCHANGED hook_queue
    /\ UNCHANGED <<hook_pc, loop_running, loop_tasks, beside_hook>>

\* a free worker takes the oldest task: run_coroutine_threadsafe schedules
\* process_update(update) on telegram_loop, and .result() waits for it
HookWorkerStart ==
    /\ hook_queue # <<>>
    /\ Cardinality(HookRunning) < hook_workers
    /\ hook_queue' = Tail(hook_queue)
    /\ loop_tasks' = Append(loop_tasks, Head(hook_queue))
    /\ hook' = [hook EXCEPT ![Head(hook_queue)] = "waiting"]
    /\ UNCHANGED <<hook_pc, loop_running, beside_hook>>

NextHook ==
    \/ ConfigureWebhook
    \/ SkipWebhook
    \/ LoopStep
    \/ \E u \in HookIds, parses \in BOOLEAN : Webhook(u, parses)
    \/ HookWorkerStart

\* every thread that can run does run
HookScheduling ==
    /\ WF_vars(LoopStep)
    /\ WF_vars(HookWorkerStart)

SpecHook == Idle /\ [][NextHook]_vars /\ HookScheduling

\* ------------------------------------------------ handle_inline_query
\* lines 41-46 and 65: a query arrives; raises stands for an exception in
\* the first lines of the try block
InlineQuery(text, raises) ==
    /\ iq.pc \in {"idle", "done"}
    /\ iq' = [NoInlineQuery EXCEPT
                !.query = Strip(text),
                !.pc = IF raises THEN "unexpected"
                       ELSE IF IsBlank(Strip(text)) THEN "help"
                       ELSE "search"]
    /\ UNCHANGED beside_inline

\* lines 68-98: _search_jobs runs in the executor and calls
\* search_all_sites (206); it takes d seconds; found tells whether it
\* came back with jobs or with an "error" entry
InlineSearch(d, found) ==
    /\ iq.pc = "search"
    /\ iq' = [iq EXCEPT
                !.searches = @ + 1,
                !.waited = @ + Waited(d, SearchTimeout),
                !.pc = IF TimedOut(d, SearchTimeout) THEN "timeout"
                       ELSE IF ~found THEN "error"
                       ELSE "log"]
    /\ UNCHANGED beside_inline

\* lines 118-129: search_all_sites is called again (122) for the results
\* log; raises stands for an exception of that call or of
\* log_search_results
InlineLog(d, raises) ==
    /\ iq.pc = "log"
    /\ iq' = [iq EXCEPT
                !.searches = @ + 1,
                !.waited = @ + Waited(d, LogTimeout),
                !.pc = IF TimedOut(d, LogTimeout) THEN "format"
                       ELSE IF raises THEN "unexpected"
                       ELSE "format"]
    /\ UNCHANGED beside_inline

\* lines 131-143: the formatter runs in the executor; on a timeout
\* create_simple_results takes its place; raises stands for an exception
\* of whichever of the two ran
InlineFormat(d, raises) ==
    /\ iq.pc = "format"
    /\ iq' = [iq EXCEPT
                !.waited = @ + Waited(d, FormatTimeout),
                !.pc = IF raises THEN "unexpected" ELSE "results"]
    /\ UNCHANGED beside_inline

\* update.inline_query.answer is called (62, 95, 113, 147, 167, 198) and
\* returns (ok) or raises
InlineAnswer(ok) ==
    /\ iq.pc \in AnswerStages
    /\ iq' = [iq EXCEPT
                !.answers = Append(@, ok),
                !.pc = AfterAnswer(iq.pc, ok)]
    /\ UNCHANGED beside_inline

NextInline ==
    \/ \E text \in MessageTexts, raises \in BOOLEAN : InlineQuery(text, raises)
    \/ \E d \in Durations, found \in BOOLEAN : InlineSearch(d, found)
    \/ \E d \in Durations, raises \in BOOLEAN : InlineLog(d, raises)
    \/ \E d \in Durations, raises \in BOOLEAN : InlineFormat(d, raises)
    \/ \E ok \in BOOLEAN : InlineAnswer(ok)

SpecInline == Idle /\ [][NextInline]_vars

\* ------------------------------------------------ HHLocationService()
\* __init__, lines 26-43, for an instance not initialized yet; api is the
\* answer the areas API would give, writable whether _save_cache can write
Construct(api, writable) ==
    /\ loc_pc # "ready"
    /\ IF load_cache(cache_file)
       THEN /\ hh_locations' = cache_file.table
            /\ loc_pc' = "ready"
            /\ built' = [cache |-> cache_file, api |-> NoAnswer]
            /\ UNCHANGED cache_file
       ELSE LET f == fetch_locations(api)
            IN  /\ hh_locations' = f.locations
                /\ loc_pc' = IF f.raises THEN "RuntimeError" ELSE "ready"
                /\ built' = [cache |-> cache_file, api |-> api]
                /\ cache_file' = IF f.saves /\ writable
                                 THEN SavedFile(f.locations)
                                 ELSE cache_file
    /\ UNCHANGED beside_loc

\* a day goes by: the cache file is a day older
DayPasses ==
    /\ cache_file.exists
    /\ cache_file.age < MaxCacheAge
    /\ cache_file' = [cache_file EXCEPT !.age = @ + 1]
    /\ UNCHANGED <<hh_locations, loc_pc, built, beside_loc>>

\* the cache file is damaged from outside: no JSON dict with 'locations'
CacheDamaged ==
    /\ cache_file.exists
    /\ cache_file.valid
    /\ cache_file' = [cache_file EXCEPT !.valid = FALSE, !.table = {}]
    /\ UNCHANGED <<hh_locations, loc_pc, built, beside_loc>>

\* the process ends and a new one starts: the singleton is gone
Restart ==
    /\ loc_pc # "none"
    /\ loc_pc' = "none"
    /\ hh_locations' = {}
    /\ UNCHANGED <<cache_file, built, beside_loc>>

NextLoc ==
    \/ \E api \in ApiAnswers, writable \in BOOLEAN : Construct(api, writable)
    \/ DayPasses
    \/ CacheDamaged
    \/ Restart

SpecLoc == Idle /\ [][NextLoc]_vars

\* ------------------------------------------------ splitting a message
Messages == SeqsUpTo(Chars, MaxMsg)

\* _split_message(message, max_length) is called (bot.py 275)
SplitMessage(message, n) ==
    /\ split_in' = [message |-> message, max_length |-> n]
    /\ chunks' = split_message(message, n)
    /\ UNCHANGED beside_split

NextSplit == \E message \in Messages, n \in 1..MaxLimit : SplitMessage(message, n)

SpecSplit == Idle /\ [][NextSplit]_vars

\* ------------------------------------------------ the CLI's main loop
\* run() 347: the user answers the prompt of _get_site_choice
GetSiteChoice(line) ==
    /\ cli_pc = "prompt"
    /\ cli_in' = line
    /\ LET r == get_site_choice(line)
       IN  IF r = Again
           THEN UNCHANGED <<cli_pc, cli_ret>>
           ELSE cli_pc' = "chosen" /\ cli_ret' = r
    /\ UNCHANGED <<cli_passed, beside_cli>>

\* run() 348-350: `if not sites: break`
CliExit ==
    /\ cli_pc = "chosen"
    /\ ~Truthy(cli_ret)
    /\ cli_pc' = "exited"
    /\ UNCHANGED <<cli_in, cli_ret, cli_passed, beside_cli>>

\* run() 352-355: the user cancels the parameter prompts
CliNoParams ==
    /\ cli_pc = "chosen"
    /\ Truthy(cli_ret)
    /\ cli_pc' = "prompt"
    /\ UNCHANGED <<cli_in, cli_ret, cli_passed, beside_cli>>

\* run() 357-370: the call search_all_sites(keyword, location, sites, ...)
CliSearch ==
    /\ cli_pc = "chosen"
    /\ Truthy(cli_ret)
    /\ cli_passed' = cli_ret
    /\ cli_pc' = "called"
    /\ UNCHANGED <<cli_in, cli_ret, beside_cli>>

NextCli ==
    \/ \E line \in TypedLines : GetSiteChoice(line)
    \/ CliExit
    \/ CliNoParams
    \/ CliSearch

SpecCli == Idle /\ [][NextCli]_vars

\* =================================================================
\* Properties
\* =================================================================
HasReturned(c) == pc[c] = "returned"

RequestedSites(c) ==
    IF request[c].sites_given THEN Range(request[c].sites)
    ELSE Range(DEFAULT_SITE_CHOICES)

\* requested site ids intersected with the registry
EffectiveSites(c) == RequestedSites(c) \cap AVAILABLE_SITES

Keys(c) == DOMAIN results[c].sites

FuturesOf(c) == {f \in DOMAIN futures : futures[f].call = c}

\* the adapter invocations made for call c at site s
AdapterCalls(c, s) ==
    {f \in FuturesOf(c) : futures[f].site = s /\ futures[f].state # "pending"}

\* the tasks whose results call c collects
Tasks(c) == Range(search_tasks[c])

\* what the site answered
SiteFailed(fu)     == fu.resp.kind \in {"request_error", "invalid_response", "processing_error"}
SiteEmpty(fu)      == fu.resp.kind = "ok" /\ fu.resp.vacancies = <<>>
GoodVacancies(fu)  == {v \in Range(fu.resp.vacancies) : v.fmt}
SiteSucceeded(fu)  == fu.resp.kind = "ok" /\ GoodVacancies(fu) # {}

\* the vacancies behind the jobs of an entry
SourcesOf(jobs) ==
    {jobs[i].source_data : i \in {k \in DOMAIN jobs : "source_data" \in DOMAIN jobs[k]}}

\* an item that is an error text, not a vacancy
IsErrorSentinel(job) == ~IsDict(job) \/ job.formatted # FormattedText

\* what the adapter of a future returned to _search_hh / _search_geekjob
AdapterReturn(fu) ==
    IF fu.site = HH THEN HHSearchJobs(fu.resp, hh_loc_errors)
                    ELSE GeekJobSearchJobs(fu.resp)

\* C1: isolation - in a returned call, whenever the site of one collected
\* task failed and the site of another succeeded, both sites have an entry
\* and the succeeding site's entry carries exactly that site's vacancies.
C1_Isolation ==
    \A c \in Calls : HasReturned(c) =>
        \A tf \in Tasks(c), ts \in Tasks(c) :
            (SiteFailed(futures[tf.fut]) /\ SiteSucceeded(futures[ts.fut])) =>
                /\ tf.site \in Keys(c)
                /\ ts.site \in Keys(c)
                /\ results[c].sites[ts.site].status = "success"
                /\ results[c].sites[ts.site].jobs # <<>>
                /\ SourcesOf(results[c].sites[ts.site].jobs) = GoodVacancies(futures[ts.fut])

\* a call returned with HeadHunter raised and GeekJob delivering jobs
C1_Witness ==
    \E c \in Calls :
        /\ HasReturned(c)
        /\ Keys(c) = {HH, GEEKJOB}
        /\ results[c].sites[HH].status = "error"
        /\ results[c].sites[GEEKJOB].status = "success"
        /\ results[c].sites[GEEKJOB].jobs # <<>>
        /\ search_tasks[c][1].site = GEEKJOB

\* C2: completeness - a returned call with a non-empty effective site set
\* has exactly the requested known site ids as the keys of its mapping.
C2_Completeness ==
    \A c \in Calls :
        (HasReturned(c) /\ EffectiveSites(c) # {}) => Keys(c) = EffectiveSites(c)

\* a call asked for both known sites (and possibly unknown ones) returned
C2_Witness ==
    \E c \in Calls :
        /\ HasReturned(c)
        /\ request[c].sites_given
        /\ EffectiveSites(c) = {HH, GEEKJOB}
        /\ Keys(c) = {HH, GEEKJOB}

C4_EmptyIsNotFailure ==
    \A c \in Calls : HasReturned(c) =>
        \A t \in Tasks(c) :
            LET fu == futures[t.fut]
                e  == results[c].sites[t.site]
            IN  /\ SiteEmpty(fu) => (e.status = "success" /\ e.jobs = <<>>)
                /\ SiteFailed(fu) => e.status # "success"

\* C5: status normalisation - an entry is a success exactly when the adapter
\* returned at least one item that is not an error sentinel, and no job of a
\* successful entry is an error sentinel.
C5_StatusNormalisation ==
    \A c \in Calls : HasReturned(c) =>
        \A t \in Tasks(c) :
            LET fu     == futures[t.fut]
                e      == results[c].sites[t.site]
                ret    == AdapterReturn(fu)
                usable == /\ ~ret.raised
                          /\ \E i \in DOMAIN ret.jobs : ~IsErrorSentinel(ret.jobs[i])
            IN  /\ (e.status = "success") <=> usable
                /\ (e.status = "success") =>
                       \A i \in DOMAIN e.jobs : ~IsErrorSentinel(e.jobs[i])

\* C6: no task is ever submitted, and no entry ever exists, for a site id
\* outside the registry; a call for <<"hh", "unknownsite">> calls only the
\* "hh" adapter and returns a mapping with the key "hh" alone.
C6_UnknownNeverDispatched ==
    \A c \in Calls :
        /\ \A f \in FuturesOf(c) : futures[f].site \in EffectiveSites(c)
        /\ Keys(c) \subseteq EffectiveSites(c)
        /\ (HasReturned(c) /\ request[c].sites_given /\ request[c].sites = <<HH, UNKNOWN>>) =>
               /\ Keys(c) = {HH}
               /\ {futures[f].site : f \in FuturesOf(c)} = {HH}

\* the call for <<"hh", "unknownsite">> returned
C6_Witness ==
    \E c \in Calls :
        /\ HasReturned(c)
        /\ request[c].sites_given
        /\ request[c].sites = <<HH, UNKNOWN>>
        /\ Keys(c) = {HH}

\* a call that was given a site list without any known site id
OnlyUnknownRequested(c) ==
    request[c].active /\ request[c].sites_given /\ EffectiveSites(c) = {}

\* C7 as stated: a returned call for unknown ids only has an empty mapping,
\* made no adapter call, and reports a global_time_ms of exactly 0.
C7_Original ==
    \A c \in Calls : (HasReturned(c) /\ OnlyUnknownRequested(c)) =>
        /\ Keys(c) = {}
        /\ FuturesOf(c) = {}
        /\ results[c].global_time_ms = 0

\* C7 (amended): a returned call for unknown ids only has an empty mapping
\* and no jobs, made no adapter call, and reports as global_time_ms the time
\* that passed between its two clock readings: never negative, and 0 only
\* if the clock did not move.
C7_EmptySetShortCircuit ==
    \A c \in Calls : (HasReturned(c) /\ OnlyUnknownRequested(c)) =>
        /\ Keys(c) = {}
        /\ results[c].total_jobs = 0
        /\ FuturesOf(c) = {}
        /\ results[c].global_time_ms >= 0
        /\ results[c].global_time_ms = (now - start_time[c]) * 1000

\* a call for unknown ids only returned after the clock had moved
C7_Witness ==
    \E c \in Calls :
        /\ HasReturned(c)
        /\ OnlyUnknownRequested(c)
        /\ request[c].sites # <<>>
        /\ results[c].global_time_ms > 0

\* C8: exactly-once attempt - within one call no site's adapter is invoked
\* more than once, and when the call has returned the adapter of every
\* effective site was invoked exactly once.
C8_ExactlyOnce ==
    \A c \in Calls : \A s \in SiteIds :
        /\ Cardinality(AdapterCalls(c, s)) <= 1
        /\ (HasReturned(c) /\ s \in EffectiveSites(c)) =>
               Cardinality(AdapterCalls(c, s)) = 1

\* C9: cross-request independence - the result of a returned call names the
\* call's own keyword and location, every task of the call ran with them,
\* each entry holds exactly the vacancies its own task's adapter call
\* fetched, and every vacancy in it was fetched by a request of that call
\* for that call's keyword.
C9_CrossRequestIndependence ==
    \A c \in Calls :
        /\ \A f \in FuturesOf(c) :
              /\ futures[f].keyword = request[c].keyword
              /\ futures[f].location = request[c].location
        /\ HasReturned(c) =>
              /\ results[c].keyword = request[c].keyword
              /\ results[c].location = request[c].location
              /\ \A t \in Tasks(c) :
                    /\ t.fut \in FuturesOf(c)
                    /\ SourcesOf(results[c].sites[t.site].jobs)
                           = GoodVacancies(futures[t.fut])
                    /\ \A v \in SourcesOf(results[c].sites[t.site].jobs) :
                           v.inv \in FuturesOf(c) /\ v.q = request[c].keyword

\* two calls with different keywords both returned jobs, and the adapter
\* they share holds the vacancies of the other call in its raw_jobs
C9_Witness ==
    \E c \in Calls, d \in Calls :
        /\ c # d
        /\ HasReturned(c) /\ HasReturned(d)
        /\ request[c].keyword # request[d].keyword
        /\ results[c].sites[HH].jobs # <<>>
        /\ results[d].sites[HH].jobs # <<>>
        /\ raw_jobs[HH] # <<>>
        /\ raw_jobs[HH][1].inv \in FuturesOf(d)

\* the two tasks of a call for both sites
BothSites(c) == {t.site : t \in Tasks(c)} = {HH, GEEKJOB}

TaskTime(c, s) ==
    LET t == CHOOSE t \in Tasks(c) : t.site = s IN futures[t.fut].timing

\* C10: parallel dispatch - a call for both sites submits both tasks before
\* it waits for a result; and when the call has returned, each adapter took
\* the same time T >= 1 and the call's own steps took less than T/2, the
\* reported global_time_ms is closer to T than to 2T.
C10_ParallelDispatch ==
    \A c \in Calls :
        /\ (pc[c] = "collect" /\ EffectiveSites(c) = {HH, GEEKJOB}) => BothSites(c)
        /\ (HasReturned(c) /\ BothSites(c)) =>
              LET T == TaskTime(c, HH)
                  g == results[c].global_time_ms
              IN  (/\ T >= 1
                   /\ TaskTime(c, GEEKJOB) = T
                   /\ 2 * overhead < T)
                  => 2 * g < 3 * T * 1000

\* a call for both sites returned with each adapter having taken two ticks
C10_Witness ==
    \E c \in Calls :
        /\ HasReturned(c)
        /\ BothSites(c)
        /\ TaskTime(c, HH) = 2
        /\ TaskTime(c, GEEKJOB) = 2
        /\ overhead = 0
        /\ results[c].global_time_ms = 2000

\* what C11 compares of a site's entry: status, jobs and error
Content(entry) ==
    [status |-> entry.status, jobs |-> entry.jobs,
     error  |-> IF "error" \in DOMAIN entry THEN entry.error ELSE None]

\* the content a site's entry has when the site's adapter got `resp`
OutcomeContent(site, resp) ==
    LET ret == RunTask(site, resp, hh_loc_errors)
    IN  [status |-> IF ret.raised THEN "error" ELSE "success",
         jobs   |-> ret.jobs,
         error  |-> IF ret.raised THEN ret.msg ELSE None]

\* C11: order independence - in a returned call the key set is the set of
\* requested known sites and the content of each site's entry (status, jobs,
\* error) is the one fixed by that site's own adapter outcome, whatever the
\* order in which the tasks started and completed.
C11_OrderIndependence ==
    \A c \in Calls : HasReturned(c) =>
        /\ Keys(c) = EffectiveSites(c)
        /\ \A t \in Tasks(c) :
              Content(results[c].sites[t.site])
                  = OutcomeContent(t.site, futures[t.fut].resp)

\* a call for <<hh, geekjob>> returned although the geekjob task, submitted
\* second, completed strictly before the hh task, and the two sites' entries
\* differ in content
C11_Witness ==
    \E c \in Calls :
        /\ HasReturned(c)
        /\ Len(search_tasks[c]) = 2
        /\ search_tasks[c][1].site = HH
        /\ search_tasks[c][2].site = GEEKJOB
        /\ FinishTime(search_tasks[c][2].fut) < FinishTime(search_tasks[c][1].fut)
        /\ results[c].sites[HH].jobs # <<>>
        /\ results[c].sites[GEEKJOB].jobs = <<>>

\* the call is about to submit a task for a known site
AtSubmitOfKnown(c) == pc[c] = "submit" /\ Dispatched(sites[c][idx[c]])

PastSubmit(c) == pc[c] \in {"collect", "finish", "returned", "type_error"}

\* C13: extra_params pass-through - once a call is past its submit loop,
\* every requested known site's adapter has been called with the very
\* extra_params the caller passed (none, for a caller that passed none).
C13_ExtraParamsPassThrough ==
    \A c \in Calls : (request[c].active /\ PastSubmit(c)) =>
        \A s \in RequestedSites(c) \cap AVAILABLE_SITES :
            \E f \in FuturesOf(c) :
                /\ futures[f].site = s
                /\ futures[f].extra_params = request[c].extra_params

\* C14: defaults - a call with an empty keyword and no site list has, once
\* past its submit loop, invoked exactly the adapters of the configured
\* default sites, each with the configured default keyword.
C14_Defaults ==
    \A c \in Calls :
        (/\ request[c].active
         /\ request[c].keyword = ""
         /\ ~request[c].sites_given
         /\ pc[c] \in {"collect", "finish", "returned"}) =>
            /\ {futures[f].site : f \in FuturesOf(c)} = Range(DEFAULT_SITE_CHOICES)
            /\ \A f \in FuturesOf(c) : futures[f].keyword = DEFAULT_KEYWORD

\* C15: adapter failure contract - whenever an adapter's search_jobs has run
\* into a failure (request error, invalid response, processing error), it
\* either raised or returned an empty job list.
C15_AdapterFailureContract ==
    \A f \in DOMAIN futures :
        (futures[f].state = "done" /\ SiteFailed(futures[f])) =>
            \/ AdapterReturn(futures[f]).raised
            \/ AdapterReturn(futures[f]).jobs = <<>>

\* the adapter's own allow-list: the configured one for HeadHunter; the
\* GeekJob adapter has none
AllowList(site) == IF site = HH THEN allowed_hh_params ELSE {}

\* what the adapter puts into the request by itself for these arguments
OwnParams(a) ==
    IF a.site = HH THEN HHOwnParams(a.keyword, a.location)
                   ELSE GeekJobOwnParams(a.keyword)

\* C16: adapter allow-list - a key of the caller's extra_params that is not
\* on the called adapter's allow-list leaves the outbound request as the
\* adapter built it: the key is not added and overrides nothing.
C16_AdapterAllowList ==
    (adapter_in.site # None /\ adapter_in.extra_params.passed) =>
        \A k \in ExtraKeys :
            (adapter_in.extra_params.map[k] # Absent
                /\ k \notin AllowList(adapter_in.site))
            => outbound[k] = OwnParams(adapter_in)[k]

\* the sites of a returned call that succeeded with at least one job
SitesWithJobs(c) ==
    {s \in Keys(c) : /\ results[c].sites[s].status = "success"
                     /\ results[c].sites[s].jobs # <<>>}

\* C17: presentation of successes - when a result with at least one
\* successful, non-empty site has been handed to a presenter, the presenter
\* took its jobs path and showed every job of every such site; this for the
\* CLI presenter and for the Telegram presenter.
C17_SuccessesPresented ==
    \A c \in Calls : (HasReturned(c) /\ SitesWithJobs(c) # {}) =>
        \A out \in {displayed[c].cli, displayed[c].telegram} :
            out # NotShown =>
                /\ out.path = "jobs"
                /\ \A s \in SitesWithJobs(c) :
                      Range(results[c].sites[s].jobs) \subseteq out.jobs

\* the latest handle_search run was given a keyword / a blank text
KeywordHandled == hs.phase # "none" /\ Strip(hs.text) # ""
BlankHandled   == hs.phase # "none" /\ Strip(hs.text) = ""

\* the search_all_sites calls the service has received
ServiceCalls == {c \in Calls : request[c].active}

\* C18: a keyword message handled by handle_search makes exactly one
\* search_all_sites call, with the stripped keyword, None and the site list
\* the site selection stored; the handler then logs the results exactly
\* once and returns ConversationHandler.END, the state the conversation
\* then takes; the step that takes the message adds one call to those the
\* service has received, the step that ends the handler adds none.
C18_HandleSearchFlow ==
    /\ []((KeywordHandled /\ hs.phase = "searching") =>
            /\ user_data.has_sites
            /\ hs.search_calls =
                  <<[keyword |-> Strip(hs.text), location |-> None,
                     sites |-> user_data.sites]>>
            /\ hs.log_calls = 0
            /\ request[hs.call].keyword = Strip(hs.text)
            /\ request[hs.call].location = None
            /\ request[hs.call].sites_given
            /\ request[hs.call].sites = user_data.sites)
    /\ []((KeywordHandled /\ hs.phase = "done") =>
            /\ Len(hs.search_calls) = 1
            /\ hs.search_calls[1].keyword = Strip(hs.text)
            /\ hs.search_calls[1].location = None
            /\ hs.log_calls = 1
            /\ hs.returned = END)
    /\ [][/\ (hs' # hs /\ hs'.phase = "searching") =>
                ServiceCalls' = ServiceCalls \cup {hs'.call}
                    /\ hs'.call \notin ServiceCalls
          /\ (hs' # hs /\ hs'.phase = "done") =>
                /\ ServiceCalls' = ServiceCalls
                /\ conv' = hs'.returned]_vars

\* a keyword sent after choosing geekjob alone was searched on geekjob
\* alone, logged once, and the conversation is over
C18_Witness ==
    /\ KeywordHandled
    /\ hs.phase = "done"
    /\ hs.text.padded
    /\ hs.search_calls =
          <<[keyword |-> "python", location |-> None, sites |-> <<GEEKJOB>>]>>
    /\ hs.log_calls = 1
    /\ HasReturned(hs.call)
    /\ Keys(hs.call) = {GEEKJOB}
    /\ conv = END

\* C19: a message that is empty after stripping triggers no search: the
\* handler replies "Please enter a keyword." and returns ENTER_KEYWORD, and
\* no step taken on a blank message moves the conversation out of
\* ENTER_KEYWORD or hands the service a request.
C19_BlankKeywordStays ==
    /\ [](BlankHandled =>
            /\ hs.phase = "done"
            /\ hs.search_calls = <<>>
            /\ hs.log_calls = 0
            /\ hs.replies = <<PleaseEnterText>>
            /\ hs.returned = ENTER_KEYWORD)
    /\ [][(hs' # hs /\ Strip(hs'.text) = "")
            => /\ conv = ENTER_KEYWORD
               /\ conv' = ENTER_KEYWORD
               /\ request' = request]_vars

\* a text of white space alone was answered with the prompt, the
\* conversation still waits for a keyword and the service was never called
C19_Witness ==
    /\ BlankHandled
    /\ hs.text.padded
    /\ conv = ENTER_KEYWORD
    /\ hs.replies = <<PleaseEnterText>>
    /\ ServiceCalls = {}

C21_ChunksWithinLimit ==
    split_in.max_length >= 1 =>
        \A i \in DOMAIN chunks : Len(chunks[i]) <= split_in.max_length


\* C22: when _get_site_choice returns, it returns the list of the site ids
\* typed if all of them are known, the default list for an empty line or
\* "clear", None for "quit"; and that value is the site list run() passes
\* to search_all_sites.
C22_SiteChoiceReturned ==
    LET choice == StripLower(cli_in)
    IN  /\ cli_pc \in {"chosen", "called", "exited"} =>
              /\ (\A i \in DOMAIN choice : choice[i] \in AVAILABLE_SITES)
                    => cli_ret = ListValue(choice)
              /\ choice \in {<<"">>, <<"clear">>}
                    => cli_ret = ListValue(DEFAULT_SITE_CHOICES)
              /\ choice = <<"quit">> => cli_ret = NoneValue
        /\ cli_pc = "called" => cli_passed = cli_ret

C24_StartEntersConversation ==
    /\ (update_in.kind = "command" /\ update_in.command = "start")
          => conv = SELECT_SITE
    /\ (keyboard # {} /\ update_in.kind = "message"
          /\ ~update_in.text.padded
          /\ update_in.text.word \in {HH, GEEKJOB, "all"})
          => handled_by = "handle_site_selection"

\* C25: every option on the keyboard start() showed, sent while the
\* conversation is in SELECT_SITE, is taken by the SELECT_SITE filter and
\* leaves the conversation in ENTER_KEYWORD with user_data['sites'] holding
\* only sites search_all_sites dispatches an adapter for.
C25_KeyboardOptionsAccepted ==
    (/\ update_in.kind = "message"
     /\ update_in.state = SELECT_SITE
     /\ ~update_in.text.padded
     /\ update_in.text.word \in keyboard)
    => /\ handled_by = "handle_site_selection"
       /\ conv = ENTER_KEYWORD
       /\ user_data.has_sites
       /\ \A i \in DOMAIN user_data.sites : Dispatched(user_data.sites[i])

\* C26: every update for which POST /webhook returned 200 is eventually
\* processed to the end by process_update, its worker being released.
C26_AcceptedUpdatesProcessed ==
    \A u \in HookIds : hook[u] \in {"accepted", "waiting"} ~> hook[u] = "done"

\* C27: every inline query is answered: when handle_inline_query is over,
\* answer has been called at least once, and at no moment has answer been
\* called again after a call of it succeeded.
C27_AnsweredOnce ==
    /\ iq.pc = "done" => Len(iq.answers) >= 1
    /\ \A i \in DOMAIN iq.answers : iq.answers[i] => i = Len(iq.answers)

\* the answer with the results failed, the second answer failed too, and
\* the answer of the outer except came through
C27_Witness ==
    /\ iq.pc = "done"
    /\ iq.answers = <<FALSE, FALSE, TRUE>>
    /\ iq.searches > 0

\* C28: handling one inline query makes at most one search_all_sites call.
C28_OneSearchPerQuery == iq.searches <= 1

\* C29: a non-empty inline query waits at most 5 seconds for its search
\* and 3 for the formatting, 8 seconds at most in all.
C29_TimeBudget == iq.waited <= SearchTimeout + FormatTimeout

\* the areas API gave no list of areas
FetchFailed(api) == api.kind \in {"request_error", "not_list"}

\* a cache file with valid content is on disk
ValidCacheOnDisk(file) == file.exists /\ file.valid

\* C30: HHLocationService() raises RuntimeError only when the fetch failed
\* and no cache is available; with a cache file of valid content on disk
\* it completes with a non-empty table even if the fetch fails.
C30_Original ==
    /\ loc_pc = "RuntimeError"
          => FetchFailed(built.api) /\ ~ValidCacheOnDisk(built.cache)
    /\ (loc_pc # "none" /\ ValidCacheOnDisk(built.cache)
          /\ built.cache.table # {})
          => loc_pc = "ready" /\ hh_locations # {}

\* C30 as it holds: RuntimeError is raised exactly when the fetch failed
\* and no cache file of valid content younger than CACHE_EXPIRY_DAYS was
\* there; with such a file the construction completes with the table of
\* the file, the API not being asked; without one the API is asked, and
\* a construction that completes has the table the API gave.
C30_RaisesWithoutFreshCache ==
    LET fresh == ValidCacheOnDisk(built.cache)
                 /\ built.cache.age < CACHE_EXPIRY_DAYS
    IN  loc_pc # "none" =>
          /\ loc_pc = "RuntimeError" <=> (~fresh /\ FetchFailed(built.api))
          /\ fresh => /\ loc_pc = "ready"
                      /\ hh_locations = built.cache.table
                      /\ built.api = NoAnswer
          /\ ~fresh => /\ built.api # NoAnswer
                       /\ loc_pc = "ready" => hh_locations = built.api.areas

\* a cache of valid content, out of date, and a failed fetch: RuntimeError
C30_Witness ==
    /\ loc_pc = "RuntimeError"
    /\ ValidCacheOnDisk(built.cache)
    /\ built.cache.table # {}
    /\ built.cache.age >= CACHE_EXPIRY_DAYS
====
